---- MODULE Spec2Model ----
(***************************************************************************)
(* rankpvpn.py: the server registry (ServerStatus.retrieve and its cache   *)
(* file), the concurrent rating engine (ServerStatus.rate, its probe       *)
(* workers and its two queues), filter(), sort() and process_options.      *)
(*                                                                         *)
(* Spec      : one rating pass, rate() called directly or from sort().     *)
(* CacheSpec : loads of the registry through retrieve(), under main().     *)
(* ApiSpec   : calls of filter(), sort() and rate() on a store.            *)
(* PipeSpec  : one run of process_options.                                 *)
(***************************************************************************)
EXTENDS Integers, Sequences, FiniteSets, Bags, TLC

MaxRecords == 2
MaxThreads == 1
MaxSize == 2
MaxRows == 1
MaxTime == 2
MaxCacheTimeout == 3
MaxRefresh == 1
MaxLoads == 2
MaxKey == 1
MaxServers == 1
MaxPipe == 2
DefaultThreads == 5

VARIABLES
    mirrors,        \* rate(): the list of records handed in
    threadsArg,     \* rate(): the threads argument as received
    via,            \* "sort" (ServerStatus.sort, by='rate') or "direct"
    selfThreads,    \* self.threads: <<>> is None, <<n>> is the integer n
    dpc,            \* position of the thread that called rate()
    threads,        \* rate(): the local variable threads, once clamped
    launched,       \* number of worker threads started so far
    loaded,         \* number of urls put on q_in so far
    drained,        \* number of results taken from q_out so far
    q_in,           \* queue.Queue of urls
    unfinished,     \* q_in.unfinished_tasks
    q_out,          \* queue.Queue of (url, rate, dt)
    rates,          \* the dict rates
    result,         \* the list rate() returns
    workers,        \* the worker threads: a bag of [pc, res, exc, read], where
                    \* res is the (url, rate, dt) the thread is about to post,
                    \* exc the exception raised inside its current probe and
                    \* read the bytes its completed download read
    measured,       \* history: every (url, rate) posted in this pass
    taken,          \* history: the bag of urls whose result was taken from q_out
    now,            \* time.time(), and the time datetime.utcnow() shows
    file,           \* the cache file: [exists, content, mtime]
    cache_timeout,  \* self.cache_timeout
    refresh_interval, \* self.refresh_interval
    json_obj,       \* self.json_obj
    json_mtime,     \* self.json_mtime
    json_str,       \* retrieve(): json_str
    save_json,      \* retrieve(): save_json
    rpc,            \* position inside get_obj() / retrieve()
    raised,         \* the exception on its way out of retrieve(), or "none"
    outcome,        \* how main() ended, or "running"
    loads,          \* loads completed by this process
    hist,           \* history of the current retrieve() call, and the page
                    \* serverlist.htm holds during it
    lastMiss,       \* history: the snapshot the last cache-writing call kept
    store,          \* self.json_obj['servers']: the list the store holds
    api,            \* the last call of filter(), sort() or rate() on the store
    options,        \* process_options: the parsed command line
    ppc,            \* process_options: position, or "idle"
    cur,            \* process_options: the variable mirrors
    filtered,       \* history: the records that passed filter()
    nrate,          \* history: the number of calls of rate() in this run
    rateIn          \* history: the list the last call of rate() was given

rateVars == <<mirrors, threadsArg, via, selfThreads, dpc, threads, launched,
              loaded, drained, q_in, unfinished, q_out, rates, result,
              workers, measured, taken>>

cacheVars == <<now, file, cache_timeout, refresh_interval, json_obj,
               json_mtime, json_str, save_json, rpc, raised, outcome, loads,
               hist, lastMiss>>

pipeVars == <<store, api, options, ppc, cur, filtered, nrate, rateIn>>

vars == <<rateVars, cacheVars, pipeVars>>

----------------------------------------------------------------------------
(* Records and urls *)

Urls == {"rsync://a/", "http://b/", "http://c/"}

\* urllib.parse.urlparse(url).scheme
Scheme(url) == IF url = "rsync://a/" THEN "rsync" ELSE "http"

\* The end-to-end scenario of three servers A, B, C
Scenario == <<"rsync://a/", "http://b/", "http://c/">>

\* The lists rate() may receive: the record at position i is the object i.
MirrorLists ==
    UNION {[1..n -> Urls] : n \in 0..MaxRecords} \cup {Scenario}

Record(i, u) == [id |-> i, url |-> u]

MakeMirrors(f) == [i \in DOMAIN f |-> Record(i, f[i])]

None == <<>>

\* A duration: float('NaN'), or a number of seconds.
NaN == [nan |-> TRUE, secs |-> 0]

Secs(d) == [nan |-> FALSE, secs |-> d]

----------------------------------------------------------------------------
(* Exceptions *)

\* The classes an exception is an instance of (Python's class hierarchy).
Bases(exc) ==
    CASE exc = "FileNotFoundError"  -> {"FileNotFoundError", "OSError", "Exception"}
      [] exc = "PermissionError"    -> {"PermissionError", "OSError", "Exception"}
      [] exc = "URLError"           -> {"URLError", "OSError", "Exception"}
      [] exc = "HTTPError"          -> {"HTTPError", "URLError", "OSError", "Exception"}
      [] exc = "IncompleteRead"     -> {"IncompleteRead", "HTTPException", "Exception"}
      [] exc = "JSONDecodeError"    -> {"JSONDecodeError", "ValueError", "Exception"}
      [] exc = "ZeroDivisionError"  -> {"ZeroDivisionError", "ArithmeticError", "Exception"}
      [] OTHER                      -> {exc, "Exception"}

\* except (handlers): does the clause catch exc?
Catches(handlers, exc) == Bases(exc) \cap handlers # {}

\* except (subprocess.CalledProcessError, subprocess.TimeoutExpired, FileNotFoundError)
RsyncHandlers == {"CalledProcessError", "TimeoutExpired", "FileNotFoundError"}

\* except (OSError, urllib.error.HTTPError, http.client.HTTPException)
UrllibHandlers == {"OSError", "HTTPError", "HTTPException"}

----------------------------------------------------------------------------
(* One pass of the worker's loop body on one url *)

NoExc == [at |-> "none", exc |-> "none"]

\* What the world does to one probe: the call that raises (at, exc), if any,
\* the size of the payload and the wall-clock time the transfer took.
RsyncFaults ==
    {[at |-> "check_call", exc |-> "CalledProcessError"],
     [at |-> "check_call", exc |-> "PermissionError"]}

UrllibFaults ==
    {[at |-> "urlopen", exc |-> "URLError"],
     [at |-> "read",    exc |-> "IncompleteRead"]}

PingFaults == {[at |-> "ping", exc |-> "MultiPingError"]}

Faults(url) ==
    PingFaults \cup (IF Scheme(url) = "rsync" THEN RsyncFaults ELSE UrllibFaults)

\* time.time() - t0: the clock did not move during the transfer, or it moved
\* by one unit (sizes are then bytes per unit of time).
Elapsed == {0, 1}

Worlds(url) ==
    {[fault |-> f, size |-> s, elapsed |-> e] :
        f \in {NoExc} \cup Faults(url), s \in 0..MaxSize, e \in Elapsed}

\* size / dt, for dt > 0
Divide(size, dt) == size \div dt

\* The outcome of a loop body: the worker posts res, or dies of exc; read is
\* the number of bytes of a download that completed and was timed.
Posts(url, rate, dt, f, n) ==
    [dead |-> FALSE, exc |-> f, read |-> n,
     res |-> [url |-> url, rate |-> rate, dt |-> dt]]

Dies(url, f) ==
    [dead |-> TRUE, exc |-> f, read |-> 0,
     res |-> [url |-> url, rate |-> 0, dt |-> NaN]]

NoResult == [url |-> "", rate |-> 0, dt |-> NaN]

ZeroDiv == [at |-> "divide", exc |-> "ZeroDivisionError"]

\* try: ... except handlers: pass, around a body that raises w.fault (or
\* divides by a zero dt); rate and dt are what the body had assigned so far.
TryProbe(url, w, handlers) ==
    LET dtSet == w.fault.at = "none"
        dt    == IF dtSet THEN Secs(w.elapsed) ELSE NaN
        f     == IF w.fault.at = "none" /\ w.elapsed = 0 THEN ZeroDiv ELSE w.fault
    IN  IF f.at = "none"
        THEN Posts(url, Divide(w.size, w.elapsed), dt, f, w.size)
        ELSE IF Catches(handlers, f.exc)
             THEN Posts(url, 0, dt, f, 0)
             ELSE Dies(url, f)

WorkerBody(url, w) ==
    IF w.fault.at = "ping"
    THEN Dies(url, w.fault)
    ELSE IF Scheme(url) = "rsync"
         THEN TryProbe(url, w, RsyncHandlers)
         ELSE TryProbe(url, w, UrllibHandlers)

----------------------------------------------------------------------------
(* The list operations of rate() *)

Min(a, b) == IF a < b THEN a ELSE b

Max(a, b) == IF a < b THEN b ELSE a

\* Mutant of InsertDesc: an unstable sort, which places an element before
\* the elements of equal key.
InsertDescUnstable(s, m, r) ==
    LET p == Cardinality({i \in 1..Len(s) : r[s[i].url] > r[m.url]})
    IN  SubSeq(s, 1, p) \o <<m>> \o SubSeq(s, p + 1, Len(s))

\* list.sort(key=..., reverse=True) is stable: an element goes after every
\* element already placed whose key is greater or equal.
InsertDesc(s, m, r) ==
    LET p == Cardinality({i \in 1..Len(s) : r[s[i].url] >= r[m.url]})
    IN  SubSeq(s, 1, p) \o <<m>> \o SubSeq(s, p + 1, Len(s))

RECURSIVE SortDesc(_, _)
SortDesc(s, r) ==
    IF s = <<>> THEN <<>>
    ELSE InsertDesc(SortDesc(SubSeq(s, 1, Len(s) - 1), r), s[Len(s)], r)

\* Mutant of Rated: the test written >= 0, so that unreachable servers are
\* listed twice.
RatedOrZero(ms, r) == SelectSeq(ms, LAMBDA m : r[m.url] >= 0)

\* rated_mirrors = [m for m in mirrors if rates[m['url']] > 0]
Rated(ms, r) == SelectSeq(ms, LAMBDA m : r[m.url] > 0)

\* [m for m in mirrors if rates[m['url']] == 0]
Unrated(ms, r) == SelectSeq(ms, LAMBDA m : r[m.url] = 0)

\* rated_mirrors.sort(...); return rated_mirrors + [...]
Ranked(ms, r) == SortDesc(Rated(ms, r), r) \o Unrated(ms, r)

\* The threads argument rate() receives from sort(): the parameter's default.
ThreadsFromSort == DefaultThreads

\* if not threads: threads = self.threads
ThreadsOrConfigured(arg, configured) ==
    IF arg = 0 THEN configured ELSE <<arg>>

\* if threads < 1: threads = 1 else: threads = min(threads, len(mirrors))
SaneThreads(t, n) == IF t < 1 THEN 1 ELSE Min(t, n)

\* Mutant of DrainCount: one result is taken for each distinct url.
DrainDistinct(ms) == Cardinality({ms[i].url : i \in DOMAIN ms})

\* for _ in mirrors: the number of results the collecting loop takes
DrainCount(ms) == Len(ms)

----------------------------------------------------------------------------
(* rate(): the calling thread *)

\* A worker thread at the top of its loop, about to call q_in.get()
Idle == [pc |-> "get", res |-> NoResult, exc |-> NoExc, read |-> 0]

\* The threads are anonymous: one of them leaves the state w for the state v.
Moves(b, w, v) == (b (-) SetToBag({w})) (+) SetToBag({v})

Threads == BagToSet(workers)

DriverStart ==
    /\ dpc = "start"
    /\ LET t == ThreadsOrConfigured(threadsArg, selfThreads)
       IN  IF mirrors = <<>>
           THEN /\ dpc' = "returned"
                /\ result' = mirrors
                /\ UNCHANGED threads
           ELSE IF t = None
                THEN /\ dpc' = "raised"
                     /\ UNCHANGED <<result, threads>>
                ELSE /\ dpc' = "launch"
                     /\ threads' = SaneThreads(t[1], Len(mirrors))
                     /\ UNCHANGED result
    /\ UNCHANGED <<mirrors, threadsArg, via, selfThreads, launched, loaded,
                   drained, q_in, unfinished, q_out, rates, workers, measured, taken>>
    /\ UNCHANGED <<cacheVars, pipeVars>>

\* for i in range(threads): threading.Thread(target=worker).start()
DriverLaunch ==
    /\ dpc = "launch"
    /\ IF launched < threads
       THEN /\ launched' = launched + 1
            /\ workers' = workers (+) SetToBag({Idle})
            /\ UNCHANGED dpc
       ELSE /\ dpc' = "load"
            /\ UNCHANGED <<launched, workers>>
    /\ UNCHANGED <<mirrors, threadsArg, via, selfThreads, threads, loaded,
                   drained, q_in, unfinished, q_out, rates, result,
                   measured, taken>>
    /\ UNCHANGED <<cacheVars, pipeVars>>

\* for mirror in mirrors: q_in.put(mirror['url'])
DriverPut ==
    /\ dpc = "load"
    /\ IF loaded < Len(mirrors)
       THEN /\ loaded' = loaded + 1
            /\ q_in' = Append(q_in, mirrors[loaded + 1].url)
            /\ unfinished' = unfinished + 1
            /\ UNCHANGED dpc
       ELSE /\ dpc' = "join"
            /\ UNCHANGED <<loaded, q_in, unfinished>>
    /\ UNCHANGED <<mirrors, threadsArg, via, selfThreads, threads, launched,
                   drained, q_out, rates, result, workers,
                   measured, taken>>
    /\ UNCHANGED <<cacheVars, pipeVars>>

\* Mutant of JoinReturns: no barrier, the caller goes on at once.
JoinSkipped == TRUE

\* Mutant of JoinReturns: the barrier opens while one item is still in work.
JoinReturnsEarly == unfinished <= 1

\* q_in.join(): returns once every item put has been marked done
JoinReturns == unfinished = 0

DriverJoin ==
    /\ dpc = "join"
    /\ JoinReturns
    /\ dpc' = "drain"
    /\ UNCHANGED <<mirrors, threadsArg, via, selfThreads, threads, launched,
                   loaded, drained, q_in, unfinished, q_out, rates, result,
                   workers, measured, taken>>
    /\ UNCHANGED <<cacheVars, pipeVars>>

\* for _ in mirrors: url, rate, dt = q_out.get(); rates[url] = rate
DriverGet ==
    /\ dpc = "drain"
    /\ IF drained < DrainCount(mirrors)
       THEN /\ q_out # <<>>
            /\ LET r == Head(q_out)
               IN  rates' = [u \in DOMAIN rates \cup {r.url} |->
                                IF u = r.url THEN r.rate ELSE rates[u]]
            /\ q_out' = Tail(q_out)
            /\ drained' = drained + 1
            /\ taken' = taken (+) SetToBag({Head(q_out).url})
            /\ UNCHANGED dpc
       ELSE /\ dpc' = "sort"
            /\ UNCHANGED <<q_out, rates, drained, taken>>
    /\ UNCHANGED <<mirrors, threadsArg, via, selfThreads, threads, launched,
                   loaded, q_in, unfinished, result, workers,
                   measured>>
    /\ UNCHANGED <<cacheVars, pipeVars>>

\* the partition, the sort and the return
DriverSort ==
    /\ dpc = "sort"
    /\ result' = Ranked(mirrors, rates)
    /\ dpc' = "returned"
    /\ UNCHANGED <<mirrors, threadsArg, via, selfThreads, threads, launched,
                   loaded, drained, q_in, unfinished, q_out, rates, workers, measured, taken>>
    /\ UNCHANGED <<cacheVars, pipeVars>>

----------------------------------------------------------------------------
(* rate(): the worker threads *)

\* url = q_in.get(), then the ping and the timed download on that url: the
\* body works on the thread's own variables until q_out.put
WorkerProbe(w) ==
    /\ w.pc = "get"
    /\ q_in # <<>>
    /\ q_in' = Tail(q_in)
    /\ \E world \in Worlds(Head(q_in)) :
          LET o == WorkerBody(Head(q_in), world)
          IN  workers' = Moves(workers, w,
                  [pc |-> IF o.dead THEN "dead" ELSE "put", res |-> o.res,
                   exc |-> o.exc, read |-> o.read])
    /\ UNCHANGED <<mirrors, threadsArg, via, selfThreads, dpc, threads,
                   launched, loaded, drained, unfinished, q_out, rates, result,
                   measured, taken>>
    /\ UNCHANGED <<cacheVars, pipeVars>>

\* q_out.put((url, rate, dt))
WorkerPut(w) ==
    /\ w.pc = "put"
    /\ q_out' = Append(q_out, w.res)
    /\ measured' = measured \cup {<<w.res.url, w.res.rate>>}
    /\ workers' = Moves(workers, w, [w EXCEPT !.pc = "done"])
    /\ UNCHANGED <<mirrors, threadsArg, via, selfThreads, dpc, threads,
                   launched, loaded, drained, q_in, unfinished, rates, result,
                   taken>>
    /\ UNCHANGED <<cacheVars, pipeVars>>

\* q_in.task_done(), and back to the top of the loop
WorkerTaskDone(w) ==
    /\ w.pc = "done"
    /\ unfinished' = unfinished - 1
    /\ workers' = Moves(workers, w, Idle)
    /\ UNCHANGED <<mirrors, threadsArg, via, selfThreads, dpc, threads,
                   launched, loaded, drained, q_in, q_out, rates, result,
                   measured, taken>>
    /\ UNCHANGED <<cacheVars, pipeVars>>

----------------------------------------------------------------------------
(* The registry: get_server_data(), the cache file, retrieve(), get_obj() *)

\* What the upstream page may hold when it is read: trs rows in the table,
\* six of them with exactly six cells.
Pages == {pg \in [trs : 0..MaxRows, six : 0..MaxRows] : pg.six <= pg.trs}

\* Python values of self.json_obj: None, {} and a snapshot dict.
NoneObj == [tag |-> "None", last_check |-> 0, total |-> 0, servers |-> <<>>]

EmptyObj == [tag |-> "empty", last_check |-> 0, total |-> 0, servers |-> <<>>]

\* get_server_data(): servers holds the rows of six cells, total counts
\* every row, last_check is the time of the call.
GetServerData(pg, t) ==
    [tag |-> "snapshot", last_check |-> t, total |-> pg.trs,
     servers |-> [i \in 1..pg.six |-> i]]

\* `not obj`: None and the empty dict are false.
Falsy(obj) == obj.tag \in {"None", "empty"}

\* Texts: a JSON document, or bytes that are no JSON. The dict of
\* get_server_data() holds strings, integers and lists only, which
\* json.load gives back as they were encoded.
NoStr == [kind |-> "None", doc |-> NoneObj]

Garbage == [kind |-> "garbage", doc |-> NoneObj]

\* json.JSONEncoder().encode(obj)
JSONEncode(obj) == [kind |-> "json", doc |-> obj]

\* json.load(f) on a text that parses
JSONLoad(text) == text.doc

Parsable(text) == text.kind = "json"

NoFile == [exists |-> FALSE, content |-> NoStr, mtime |-> 0]

\* with open(cache_file, 'w') as f: f.write(json_str)
Written(text, t) == [exists |-> TRUE, content |-> text, mtime |-> t]

\* time.time() - mtime < self.cache_timeout
Fresh(f, t, timeout) == t - f.mtime < timeout

\* get_obj(): not self.json_obj or time.time() > json_mtime + refresh_interval
MustRetrieve(obj, t, mtime, interval) == Falsy(obj) \/ t > mtime + interval

\* except ServerStatusError in main()
MainHandlers == {"ServerStatusError"}

\* except IOError / except OSError around the cache read
CacheReadHandlers == {"OSError"}

\* except (urllib.error.URLError, socket.timeout) and except ValueError
FetchHandlers == {"URLError", "timeout", "ValueError"}

\* The exception that leaves a try block whose handlers turn what they
\* catch into ServerStatusError.
Reraised(handlers, exc) ==
    IF Catches(handlers, exc) THEN "ServerStatusError" ELSE exc

\* entry: the method that was called; early: it was get_obj(), called less
\* than refresh_interval after the previous load began; at: the time at
\* which this load began; failed: the write of the cache file raised.
NoHist == [cache |-> "none", seen |-> NoStr, page |-> [trs |-> 0, six |-> 0],
           fetched |-> 0, wrote |-> FALSE, done |-> FALSE,
           entry |-> "none", early |-> FALSE, at |-> 0, failed |-> FALSE]

Quiet == rpc = "idle" /\ outcome = "running"

\* Mutant of CachingOn: a timeout of 0 counts as caching switched on.
CachingOnAtZero(timeout) == timeout >= 0

\* if self.cache_timeout > 0
CachingOn(timeout) == timeout > 0

\* A call of get_obj() or of retrieve() by the running process
Call ==
    /\ Quiet
    /\ loads < MaxLoads
    /\ \E entry \in {"get_obj", "retrieve"} :
          IF entry = "get_obj"
             /\ ~MustRetrieve(json_obj, now, json_mtime, refresh_interval)
          THEN /\ loads' = loads + 1
               /\ UNCHANGED <<json_obj, json_str, save_json, rpc, hist>>
          ELSE /\ json_obj' = NoneObj
               /\ json_str' = NoStr
               /\ save_json' = CachingOn(cache_timeout)
               /\ rpc' = IF CachingOn(cache_timeout) THEN "stat" ELSE "fetch"
               /\ hist' = [NoHist EXCEPT
                              !.cache = IF CachingOn(cache_timeout)
                                        THEN "none" ELSE "off",
                              !.entry = entry,
                              !.at = now,
                              !.early = /\ entry = "get_obj"
                                        /\ hist.done
                                        /\ now - hist.at < refresh_interval]
               /\ UNCHANGED loads
    /\ UNCHANGED <<now, file, cache_timeout, refresh_interval,
                   json_mtime, raised, outcome, lastMiss>>
    /\ UNCHANGED <<rateVars, pipeVars>>

\* mtime = os.path.getmtime(cache_file) and the test of its age
RetrieveStat ==
    /\ rpc = "stat"
    /\ \E err \in {"none", "EACCES"} :
          IF ~file.exists
          THEN /\ rpc' = "fetch"
               /\ hist' = [hist EXCEPT !.cache = "absent"]
               /\ UNCHANGED raised
          ELSE IF err # "none"
               THEN /\ rpc' = "raised"
                    /\ raised' = Reraised(CacheReadHandlers, "PermissionError")
                    /\ UNCHANGED hist
               ELSE /\ rpc' = IF Fresh(file, now, cache_timeout)
                              THEN "load" ELSE "fetch"
                    /\ hist' = [hist EXCEPT !.cache =
                                   IF Fresh(file, now, cache_timeout)
                                   THEN "fresh" ELSE "stale"]
                    /\ UNCHANGED raised
    /\ UNCHANGED <<now, file, cache_timeout, refresh_interval, json_obj,
                   json_mtime, json_str, save_json, outcome, loads,
                   lastMiss>>
    /\ UNCHANGED <<rateVars, pipeVars>>

\* with open(cache_file) as f: self.json_obj = json.load(f)
RetrieveLoad ==
    /\ rpc = "load"
    /\ \E err \in {"none", "PermissionError"} :
          /\ hist' = [hist EXCEPT !.seen =
                         IF err = "none" THEN file.content ELSE @]
          /\ LET exc == IF err # "none" THEN err
                        ELSE IF ~Parsable(file.content) THEN "JSONDecodeError"
                        ELSE "none"
             IN  IF exc # "none"
                 THEN /\ rpc' = "raised"
                      /\ raised' = Reraised(CacheReadHandlers, exc)
                      /\ UNCHANGED <<json_obj, json_mtime, save_json>>
                 ELSE /\ json_obj' = JSONLoad(file.content)
                      /\ json_mtime' = file.mtime
                      /\ save_json' = FALSE
                      /\ rpc' = IF Falsy(JSONLoad(file.content))
                                THEN "fetch" ELSE "save"
                      /\ UNCHANGED raised
    /\ UNCHANGED <<now, file, cache_timeout, refresh_interval, json_str,
                   outcome, loads, lastMiss>>
    /\ UNCHANGED <<rateVars, pipeVars>>

\* What may go wrong inside get_server_data(): serverlist.htm is missing.
FetchFaults == {"none", "FileNotFoundError"}

\* json_str = json.JSONEncoder().encode(get_server_data())
RetrieveFetchStr ==
    /\ rpc = "fetch"
    /\ \E err \in FetchFaults, page \in Pages :
          IF err # "none"
          THEN /\ rpc' = "raised"
               /\ raised' = Reraised(FetchHandlers, err)
               /\ UNCHANGED <<json_str, hist>>
          ELSE /\ json_str' = JSONEncode(GetServerData(page, now))
               /\ hist' = [hist EXCEPT !.fetched = @ + 1, !.page = page]
               /\ rpc' = "fetch2"
               /\ UNCHANGED raised
    /\ UNCHANGED <<now, file, cache_timeout, refresh_interval, json_obj,
                   json_mtime, save_json, outcome, loads, lastMiss>>
    /\ UNCHANGED <<rateVars, pipeVars>>

\* self.json_obj = get_server_data(); self.json_mtime = time.time(). The page
\* is the one the first call read a moment ago (hist.page); the time is not.
RetrieveFetchObj ==
    /\ rpc = "fetch2"
    /\ \E err \in FetchFaults :
          IF err # "none"
          THEN /\ rpc' = "raised"
               /\ raised' = Reraised(FetchHandlers, err)
               /\ UNCHANGED <<json_obj, json_mtime, hist>>
          ELSE /\ json_obj' = GetServerData(hist.page, now)
               /\ json_mtime' = now
               /\ hist' = [hist EXCEPT !.fetched = @ + 1]
               /\ rpc' = "save"
               /\ UNCHANGED raised
    /\ UNCHANGED <<now, file, cache_timeout, refresh_interval, json_str,
                   save_json, outcome, loads, lastMiss>>
    /\ UNCHANGED <<rateVars, pipeVars>>

\* if save_json and json_str: write the cache file; then retrieve() returns
RetrieveSave ==
    /\ rpc = "save"
    /\ IF save_json /\ json_str # NoStr
       THEN \E err \in {"none", "PermissionError"} :
               IF err # "none"
               THEN /\ rpc' = "raised"
                    /\ raised' = Reraised(CacheReadHandlers, err)
                    /\ hist' = [hist EXCEPT !.failed = TRUE]
                    /\ UNCHANGED <<file, loads, lastMiss>>
               ELSE /\ file' = Written(json_str, now)
                    /\ rpc' = "idle"
                    /\ loads' = loads + 1
                    /\ hist' = [hist EXCEPT !.wrote = TRUE, !.done = TRUE]
                    /\ lastMiss' = json_obj
                    /\ UNCHANGED raised
       ELSE /\ rpc' = "idle"
            /\ loads' = loads + 1
            /\ hist' = [hist EXCEPT !.done = TRUE]
            /\ UNCHANGED <<file, raised, lastMiss>>
    /\ UNCHANGED <<now, cache_timeout, refresh_interval, json_obj,
                   json_mtime, json_str, save_json, outcome>>
    /\ UNCHANGED <<rateVars, pipeVars>>

\* main(): except ServerStatusError: sys.exit('error: ...'); any other
\* exception leaves main() and run_main() uncaught.
MainExcept ==
    /\ rpc = "raised"
    /\ outcome = "running"
    /\ outcome' = IF Catches(MainHandlers, raised)
                  THEN "exit_message" ELSE "traceback"
    /\ UNCHANGED <<now, file, cache_timeout, refresh_interval, json_obj,
                   json_mtime, json_str, save_json, rpc, raised, loads,
                   hist, lastMiss>>
    /\ UNCHANGED <<rateVars, pipeVars>>

\* Time passes.
Tick ==
    /\ now < MaxTime
    /\ now' = now + 1
    /\ UNCHANGED <<file, cache_timeout, refresh_interval, json_obj,
                   json_mtime, json_str, save_json, rpc, raised, outcome,
                   loads, hist, lastMiss>>
    /\ UNCHANGED <<rateVars, pipeVars>>

\* The registry as ServerStatus.__init__ leaves it, nothing cached on disk
CacheQuiet ==
    /\ now = 0
    /\ file = NoFile
    /\ cache_timeout = 0
    /\ refresh_interval = 0
    /\ json_obj = EmptyObj
    /\ json_mtime = 0
    /\ json_str = NoStr
    /\ save_json = FALSE
    /\ rpc = "idle"
    /\ raised = "none"
    /\ outcome = "running"
    /\ loads = 0
    /\ hist = NoHist
    /\ lastMiss = NoneObj

----------------------------------------------------------------------------
(* Texts and records, as filter() and sort() see them *)

\* A str is the tuple of its characters.
Chars == {"A", "E", "S", "T", "a", "e", "s", "t"}

\* ord(c)
Ord(c) ==
    CASE c = "A" -> 65  [] c = "E" -> 69  [] c = "S" -> 83  [] c = "T" -> 84
      [] c = "a" -> 97  [] c = "e" -> 101 [] c = "s" -> 115 [] c = "t" -> 116

\* str.upper()
Upper(text) ==
    [i \in DOMAIN text |->
        CASE text[i] = "a" -> "A" [] text[i] = "e" -> "E"
          [] text[i] = "s" -> "S" [] text[i] = "t" -> "T"
          [] OTHER -> text[i]]

\* a < b on str: the first difference decides, a proper prefix is smaller
StrLess(a, b) ==
    \E k \in 1..(Len(b)) :
        /\ \A j \in 1..(k - 1) : j <= Len(a) /\ a[j] = b[j]
        /\ \/ k = Len(a) + 1
           \/ k <= Len(a) /\ Ord(a[k]) < Ord(b[k])

\* re.search(pattern, text), for a pattern of literal characters
Search(pattern, text) ==
    \E i \in 0..(Len(text) - Len(pattern)) :
        SubSeq(text, i + 1, i + Len(pattern)) = pattern

\* The keys every record of get_server_data() has (those the model follows)
BaseKeys == {"country", "country_code", "url"}

\* The keys sort() and filter() index that get_server_data() never sets
ExtraKeys == {"last_sync", "score", "delay", "protocol"}

Hour == 3600

\* MaxKey bounds the values of last_sync (in hours), score and delay.
Lands ==
    {[country |-> <<"S", "e">>, country_code |-> <<"S", "E">>, url |-> <<"s", "e", "a">>],
     [country |-> <<"S", "e">>, country_code |-> <<"S", "E">>, url |-> <<"a", "t", "e">>],
     [country |-> <<"A", "t">>, country_code |-> <<"A", "T">>, url |-> <<"a", "t", "e">>]}

\* A record as get_server_data() builds it
Plain(l) ==
    [country |-> l.country, country_code |-> l.country_code, url |-> l.url,
     keys |-> BaseKeys, last_sync |-> 0, score |-> 0, delay |-> 0,
     protocol |-> <<>>]

\* A record that also carries last_sync, score, delay and protocol
Synced(l, k) ==
    [country |-> l.country, country_code |-> l.country_code, url |-> l.url,
     keys |-> BaseKeys \cup ExtraKeys, last_sync |-> k * Hour, score |-> k,
     delay |-> k, protocol |-> <<"s">>]

Shapes == {Plain(l) : l \in Lands} \cup {Synced(l, k) : l \in Lands, k \in 0..MaxKey}

\* The object at position i of the list the store holds
Object(i, shape) == [id |-> i] @@ shape

\* The end-to-end scenario of filter: five records, two of them matching
FilterScenario ==
    <<Plain([country |-> <<"A", "t">>, country_code |-> <<"A", "T">>, url |-> <<"a", "t", "e">>]),
      Plain([country |-> <<"S", "e">>, country_code |-> <<"S", "E">>, url |-> <<"s", "e", "a">>]),
      Plain([country |-> <<"A", "t">>, country_code |-> <<"A", "T">>, url |-> <<"a", "t", "e">>]),
      Plain([country |-> <<"A", "t">>, country_code |-> <<"A", "T">>, url |-> <<"a", "t", "e">>]),
      Plain([country |-> <<"S", "e">>, country_code |-> <<"S", "E">>, url |-> <<"a", "t", "e">>])>>

\* Three records that carry every key, two of them with equal keys
SortScenario ==
    <<Synced([country |-> <<"S", "e">>, country_code |-> <<"S", "E">>, url |-> <<"s", "e", "a">>], 1),
      Synced([country |-> <<"A", "t">>, country_code |-> <<"A", "T">>, url |-> <<"a", "t", "e">>], 0),
      Synced([country |-> <<"S", "e">>, country_code |-> <<"S", "E">>, url |-> <<"a", "t", "e">>], 1)>>

\* The lists a store may hold: the record at position i is the object i.
ServerLists ==
    {[i \in DOMAIN f |-> Object(i, f[i])] :
        f \in UNION {[1..n -> Shapes] : n \in 0..MaxServers}
               \cup {FilterScenario, SortScenario}}

----------------------------------------------------------------------------
(* ServerStatus.filter *)

\* An argument that was not given
NotGiven == <<>>

\* if countries and not (country.upper() in uc or country_code.upper() in uc)
CountryMatches(m, countries) ==
    LET uc_countries == {Upper(countries[i]) : i \in DOMAIN countries}
    IN  Upper(m.country) \in uc_countries \/ Upper(m.country_code) \in uc_countries

\* Mutant of IncludeMatches: every pattern has to match.
IncludeMatchesAll(m, include) ==
    \A i \in DOMAIN include : Search(include[i], m.url)

\* for regex in include: if re.search(regex, mirror['url']): break
IncludeMatches(m, include) ==
    \E i \in DOMAIN include : Search(include[i], m.url)

\* for regex in exclude: if re.search(...): discard = True
ExcludeMatches(m, exclude) ==
    \E i \in DOMAIN exclude : Search(exclude[i], m.url)

\* t > (age * 60 ** 2 + mirror['last_sync'])
TooOld(m, age, t) == t > age * Hour + m.last_sync

\* One pass of the loop body of filter() on the record m: the record is
\* skipped ("continue"), yielded, or the body raises KeyError.
FilterOne(m, cr, t) ==
    IF cr.countries # NotGiven /\ ~CountryMatches(m, cr.countries)
    THEN "continue"
    ELSE IF cr.protocols # NotGiven /\ "protocol" \notin m.keys
    THEN "KeyError"
    ELSE IF cr.protocols # NotGiven
            /\ m.protocol \notin {cr.protocols[i] : i \in DOMAIN cr.protocols}
    THEN "continue"
    ELSE IF cr.include # NotGiven /\ ~IncludeMatches(m, cr.include)
    THEN "continue"
    ELSE IF cr.exclude # NotGiven /\ ExcludeMatches(m, cr.exclude)
    THEN "continue"
    ELSE IF cr.age # 0 /\ "last_sync" \notin m.keys
    THEN "KeyError"
    ELSE IF cr.age # 0 /\ TooOld(m, cr.age, t)
    THEN "continue"
    ELSE "yield"

\* The generator filter() returns, consumed to its end: the records it
\* yields, and the exception that ends it early, if any.
Filter(ms, cr, t) ==
    LET bad == {i \in DOMAIN ms : FilterOne(ms[i], cr, t) = "KeyError"}
        end == IF bad = {} THEN Len(ms) + 1
               ELSE CHOOSE i \in bad : \A j \in bad : i <= j
    IN  [exc |-> IF bad = {} THEN "none" ELSE "KeyError",
         out |-> SelectSeq(SubSeq(ms, 1, end - 1),
                           LAMBDA m : FilterOne(m, cr, t) = "yield")]

\* The time filter() reads: two hours after the epoch of the records
FilterTime == 2 * Hour

----------------------------------------------------------------------------
(* ServerStatus.sort *)

\* The key sort() compares for `by`: last_sync for 'age', otherwise m[by]
SortKey(by) == IF by = "age" THEN "last_sync" ELSE by

\* key(a) < key(b), natural comparison of the field's type
KeyLess(a, b, k) ==
    IF k \in {"country", "country_code"} THEN StrLess(a[k], b[k])
    ELSE a[k] < b[k]

\* list.sort(key=...) is stable: an element goes after every element
\* already placed whose key is not greater; with reverse=True after every
\* element whose key is not smaller.
InsertByKey(s, m, k, reverse) ==
    LET p == Cardinality({i \in 1..Len(s) :
                 IF reverse THEN ~KeyLess(s[i], m, k) ELSE ~KeyLess(m, s[i], k)})
    IN  SubSeq(s, 1, p) \o <<m>> \o SubSeq(s, p + 1, Len(s))

RECURSIVE SortByKey(_, _, _)
SortByKey(s, k, reverse) ==
    IF s = <<>> THEN <<>>
    ELSE InsertByKey(SortByKey(SubSeq(s, 1, Len(s) - 1), k, reverse),
                     s[Len(s)], k, reverse)

\* mirrors.sort(key=lambda m: m[k], reverse=...) on the list s: the list as
\* the call leaves it, and the KeyError of the first record without the key
\* (the keys are all computed before anything is moved).
ListSort(s, k, reverse) ==
    IF \E i \in DOMAIN s : k \notin s[i].keys
    THEN [exc |-> "KeyError", out |-> s]
    ELSE [exc |-> "none", out |-> SortByKey(s, k, reverse)]

\* The orderings sort() sorts in place
SortedInPlace == {"age", "country", "country_code", "delay", "score"}

\* Every value of `by` the callers pass: the SORT_TYPES, country_code, None
SortBys == SortedInPlace \cup {"rate", "None"}

----------------------------------------------------------------------------
(* rate() as its callers see it *)

RateValues == 0..MaxSize

\* How a rating pass on the list ms may end: it returns the list ranked by
\* the rates it measured, or a worker died and q_in.join() never returns.
RateOutcomes(ms) ==
    IF ms = <<>> THEN {[exc |-> "none", out |-> ms]}
    ELSE {[exc |-> "none", out |-> Ranked(ms, r)] :
            r \in [{ms[i].url : i \in DOMAIN ms} -> RateValues]}
         \cup {[exc |-> "hung", out |-> <<>>]}

----------------------------------------------------------------------------
(* Calls of filter(), sort() and rate() on a store *)

NoCriteria ==
    [countries |-> NotGiven, include |-> NotGiven, exclude |-> NotGiven,
     age |-> 0, protocols |-> NotGiven]

\* The criteria a caller may hand to filter(). An age of 0 is "not given".
Criteria ==
    [countries : {NotGiven, << <<"s", "e">> >>, << <<"A", "t">>, <<"s", "e">> >>},
     include   : {NotGiven, << <<"s", "e">>, <<"t">> >>},
     exclude   : {NotGiven, << <<"e", "a">>, <<"S">> >>},
     age       : {0, 1},
     protocols : {NotGiven, << <<"s">> >>}]

NoApi ==
    [op |-> "none", by |-> "None", cr |-> NoCriteria, arg |-> <<>>,
     ret |-> <<>>, exc |-> "none", held |-> <<>>, alias |-> FALSE]

\* The mirrors argument of a call: not given (the method takes
\* self.get_mirrors(), the list object the store holds), or a list the
\* caller has made of the store's records.
Sources == {"None", "list"}

\* The call op, on the list arg, that left the list ret (or raised exc);
\* held is the servers list of the store when the call began, same says
\* whether ret is the list object the store holds.
Called(op, by, cr, arg, o, same) ==
    [op |-> op, by |-> by, cr |-> cr, arg |-> arg, ret |-> o.out,
     exc |-> o.exc, held |-> store, alias |-> same]

\* list(ms.filter(mirrors, ...)): the generator, consumed by its caller
FilterCall ==
    /\ ppc = "idle"
    /\ \E cr \in Criteria :
          api' = Called("filter", "None", cr, store,
                        Filter(store, cr, FilterTime), FALSE)
    /\ UNCHANGED <<store, options, ppc, cur, filtered, nrate, rateIn>>
    /\ UNCHANGED <<rateVars, cacheVars>>

\* ms.sort(mirrors, by): 'age' and the field orderings sort the list they
\* are given in place and return it, 'rate' returns what rate() returns, any
\* other value returns the list as it is.
SortCall ==
    /\ ppc = "idle"
    /\ \E src \in Sources, by \in SortBys :
          IF by \in SortedInPlace
          THEN LET o == ListSort(store, SortKey(by), by = "age")
               IN  /\ api' = Called("sort", by, NoCriteria, store, o,
                                    src = "None")
                   /\ store' = IF src = "None" THEN o.out ELSE store
          ELSE IF by = "rate"
          THEN /\ \E o \in RateOutcomes(store) :
                     api' = Called("sort", by, NoCriteria, store, o,
                                   src = "None" /\ store = <<>>)
               /\ UNCHANGED store
          ELSE /\ api' = Called("sort", by, NoCriteria, store,
                                [exc |-> "none", out |-> store], src = "None")
               /\ UNCHANGED store
    /\ UNCHANGED <<options, ppc, cur, filtered, nrate, rateIn>>
    /\ UNCHANGED <<rateVars, cacheVars>>

\* ms.rate(mirrors): the list returned is a new one, unless the list given
\* is empty
RateCall ==
    /\ ppc = "idle"
    /\ \E src \in Sources, o \in RateOutcomes(store) :
          api' = Called("rate", "None", NoCriteria, store, o,
                        src = "None" /\ store = <<>>)
    /\ UNCHANGED <<store, options, ppc, cur, filtered, nrate, rateIn>>
    /\ UNCHANGED <<rateVars, cacheVars>>

----------------------------------------------------------------------------
(* process_options *)

\* The values of --latest, --score, --fastest and --number; an option that
\* was not given is None, which every test of process_options treats as 0.
OptInts == {-1, 0, 1}

\* --sort: one of SORT_TYPES, or not given
SortOptions == {"None", "age", "rate", "country", "score", "delay"}

NoOptions ==
    [countries |-> NotGiven, include |-> NotGiven, exclude |-> NotGiven,
     age |-> 0, protocols |-> NotGiven, latest |-> 0, score |-> 0,
     fastest |-> 0, sort |-> "None", number |-> 0]

Options ==
    [countries : {NotGiven, << <<"s", "e">> >>},
     include   : {NotGiven},
     exclude   : {NotGiven},
     age       : {0, 1},
     protocols : {NotGiven},
     latest    : OptInts,
     score     : OptInts,
     fastest   : OptInts,
     sort      : SortOptions,
     number    : OptInts]

\* The value of the variable mirrors: a generator (lazy) that will yield
\* items and then raise exc, or the list items
NoList == [lazy |-> FALSE, items |-> <<>>, exc |-> "none"]

\* s[:n]
Slice(s, n) ==
    IF n >= 0 THEN SubSeq(s, 1, Min(n, Len(s)))
    ELSE SubSeq(s, 1, Max(Len(s) + n, 0))

\* mirrors = ms.get_mirrors(); mirrors = ms.filter(mirrors, ...)
PoFilter ==
    /\ ppc = "filter"
    /\ LET f == Filter(store, options, FilterTime)
       IN  /\ cur' = [lazy |-> TRUE, items |-> f.out, exc |-> f.exc]
           /\ filtered' = f.out
    /\ ppc' = "latest"
    /\ UNCHANGED <<store, api, options, nrate, rateIn>>
    /\ UNCHANGED <<rateVars, cacheVars>>

\* mirrors = ms.sort(mirrors, by=by), followed by mirrors = mirrors[:n]
\* when cut; then process_options goes on at next. sort() makes a list of a
\* generator, which raises what the generator raises.
SortStep(by, cut, n, next) ==
    IF cur.lazy /\ cur.exc # "none"
    THEN /\ ppc' = "raised"
         /\ UNCHANGED <<cur, nrate, rateIn>>
    ELSE IF by \in SortedInPlace
    THEN LET o == ListSort(cur.items, SortKey(by), by = "age")
         IN  /\ ppc' = IF o.exc = "none" THEN next ELSE "raised"
             /\ cur' = [lazy |-> FALSE, exc |-> "none",
                        items |-> IF cut THEN Slice(o.out, n) ELSE o.out]
             /\ UNCHANGED <<nrate, rateIn>>
    ELSE IF by = "rate"
    THEN /\ nrate' = nrate + 1
         /\ rateIn' = cur.items
         /\ \E o \in RateOutcomes(cur.items) :
               /\ ppc' = IF o.exc = "none" THEN next ELSE "hung"
               /\ cur' = [lazy |-> FALSE, exc |-> "none",
                          items |-> IF cut THEN Slice(o.out, n) ELSE o.out]
    ELSE /\ ppc' = next
         /\ cur' = [lazy |-> FALSE, exc |-> "none",
                    items |-> IF cut THEN Slice(cur.items, n) ELSE cur.items]
         /\ UNCHANGED <<nrate, rateIn>>

Skip(next) ==
    /\ ppc' = next
    /\ UNCHANGED <<cur, nrate, rateIn>>

\* if options.latest and options.latest > 0
PoLatest ==
    /\ ppc = "latest"
    /\ IF options.latest # 0 /\ options.latest > 0
       THEN SortStep("age", TRUE, options.latest, "score")
       ELSE Skip("score")
    /\ UNCHANGED <<store, api, options, filtered>>
    /\ UNCHANGED <<rateVars, cacheVars>>

\* if options.score and options.score > 0
PoScore ==
    /\ ppc = "score"
    /\ IF options.score # 0 /\ options.score > 0
       THEN SortStep("score", TRUE, options.score, "fastest")
       ELSE Skip("fastest")
    /\ UNCHANGED <<store, api, options, filtered>>
    /\ UNCHANGED <<rateVars, cacheVars>>

\* if options.fastest and options.fastest > 0
PoFastest ==
    /\ ppc = "fastest"
    /\ IF options.fastest # 0 /\ options.fastest > 0
       THEN SortStep("rate", TRUE, options.fastest, "sort")
       ELSE Skip("sort")
    /\ UNCHANGED <<store, api, options, filtered>>
    /\ UNCHANGED <<rateVars, cacheVars>>

\* Mutant of SortOptionApplies: the sort option is applied whenever given.
SortOptionAlways == options.sort # "None"

\* if options.sort and not (options.sort == 'rate' and options.fastest)
SortOptionApplies ==
    options.sort # "None" /\ ~(options.sort = "rate" /\ options.fastest # 0)

PoSort ==
    /\ ppc = "sort"
    /\ IF SortOptionApplies
       THEN SortStep(options.sort, FALSE, 0, "number")
       ELSE Skip("number")
    /\ UNCHANGED <<store, api, options, filtered>>
    /\ UNCHANGED <<rateVars, cacheVars>>

\* if options.number: mirrors = list(mirrors)[:options.number]; return
PoNumber ==
    /\ ppc = "number"
    /\ IF options.number # 0
       THEN IF cur.lazy /\ cur.exc # "none"
            THEN /\ ppc' = "raised"
                 /\ UNCHANGED cur
            ELSE /\ ppc' = "returned"
                 /\ cur' = [lazy |-> FALSE, exc |-> "none",
                            items |-> Slice(cur.items, options.number)]
       ELSE /\ ppc' = "returned"
            /\ UNCHANGED cur
    /\ UNCHANGED <<store, api, options, filtered, nrate, rateIn>>
    /\ UNCHANGED <<rateVars, cacheVars>>

\* No call of filter(), sort() or rate() has been made and process_options
\* is not running.
PipeQuiet ==
    /\ store = <<>>
    /\ api = NoApi
    /\ options = NoOptions
    /\ ppc = "idle"
    /\ cur = NoList
    /\ filtered = <<>>
    /\ nrate = 0
    /\ rateIn = <<>>

----------------------------------------------------------------------------
(* One rating pass *)

ThreadArgs == 0..MaxThreads

Configured == {None} \cup {<<n>> : n \in 1..MaxThreads}

Init ==
    /\ mirrors \in {MakeMirrors(f) : f \in MirrorLists}
    /\ via \in {"sort", "direct"}
    /\ threadsArg \in IF via = "sort" THEN {ThreadsFromSort} ELSE ThreadArgs
    /\ selfThreads \in Configured
    /\ dpc = "start"
    /\ threads = 0
    /\ launched = 0
    /\ loaded = 0
    /\ drained = 0
    /\ q_in = <<>>
    /\ unfinished = 0
    /\ q_out = <<>>
    /\ rates = <<>>
    /\ result = <<>>
    /\ workers = EmptyBag
    /\ measured = {}
    /\ taken = EmptyBag
    /\ CacheQuiet
    /\ PipeQuiet

Next ==
    \/ DriverStart
    \/ DriverLaunch
    \/ DriverPut
    \/ DriverJoin
    \/ DriverGet
    \/ DriverSort
    \/ \E w \in Threads : WorkerProbe(w)
    \/ \E w \in Threads : WorkerPut(w)
    \/ \E w \in Threads : WorkerTaskDone(w)

Spec == Init /\ [][Next]_vars

----------------------------------------------------------------------------
(* Loads of the registry *)

\* No rating pass is under way.
RateQuiet ==
    /\ mirrors = <<>>
    /\ via = "direct"
    /\ threadsArg = 0
    /\ selfThreads = None
    /\ dpc = "start"
    /\ threads = 0
    /\ launched = 0
    /\ loaded = 0
    /\ drained = 0
    /\ q_in = <<>>
    /\ unfinished = 0
    /\ q_out = <<>>
    /\ rates = <<>>
    /\ result = <<>>
    /\ workers = EmptyBag
    /\ measured = {}
    /\ taken = EmptyBag

\* What the cache file may hold when the program starts
CacheTexts ==
    {JSONEncode(GetServerData(pg, 0)) : pg \in Pages}
        \cup {JSONEncode(EmptyObj), Garbage}

CacheInit ==
    /\ RateQuiet
    /\ now = 0
    /\ file \in {NoFile} \cup {Written(text, 0) : text \in CacheTexts}
    /\ cache_timeout \in -1..MaxCacheTimeout
    /\ refresh_interval \in 0..MaxRefresh
    /\ json_obj = EmptyObj
    /\ json_mtime = 0
    /\ json_str = NoStr
    /\ save_json = FALSE
    /\ rpc = "idle"
    /\ raised = "none"
    /\ outcome = "running"
    /\ loads = 0
    /\ hist = NoHist
    /\ lastMiss = NoneObj
    /\ PipeQuiet

CacheNext ==
    \/ Call
    \/ RetrieveStat
    \/ RetrieveLoad
    \/ RetrieveFetchStr
    \/ RetrieveFetchObj
    \/ RetrieveSave
    \/ MainExcept
    \/ Tick

CacheSpec == CacheInit /\ [][CacheNext]_vars

----------------------------------------------------------------------------
(* Calls on a store *)

ApiInit ==
    /\ RateQuiet
    /\ CacheQuiet
    /\ store \in ServerLists
    /\ api = NoApi
    /\ options = NoOptions
    /\ ppc = "idle"
    /\ cur = NoList
    /\ filtered = <<>>
    /\ nrate = 0
    /\ rateIn = <<>>

ApiNext ==
    \/ FilterCall
    \/ SortCall
    \/ RateCall

ApiSpec == ApiInit /\ [][ApiNext]_vars

----------------------------------------------------------------------------
(* One run of process_options *)

\* The records of the snapshots the runs start from
PipeShapes ==
    {s \in Shapes :
        IF s.country = <<"S", "e">> /\ s.url = <<"a", "t", "e">>
        THEN s.keys # BaseKeys /\ s.last_sync = MaxKey * Hour
        ELSE s.keys = BaseKeys}

PipeInit ==
    /\ RateQuiet
    /\ CacheQuiet
    /\ store \in {[i \in DOMAIN f |-> Object(i, f[i])] :
                    f \in UNION {[1..n -> PipeShapes] : n \in 0..MaxPipe}}
    /\ api = NoApi
    /\ options \in Options
    /\ ppc = "filter"
    /\ cur = NoList
    /\ filtered = <<>>
    /\ nrate = 0
    /\ rateIn = <<>>

PipeNext ==
    \/ PoFilter
    \/ PoLatest
    \/ PoScore
    \/ PoFastest
    \/ PoSort
    \/ PoNumber

PipeSpec == PipeInit /\ [][PipeNext]_vars

----------------------------------------------------------------------------
(* Properties of one rating pass *)

Range(s) == {s[i] : i \in DOMAIN s}

Occurrences(x, s) == Cardinality({i \in DOMAIN s : s[i] = x})

IsPermutation(s, t) ==
    /\ Len(s) = Len(t)
    /\ \A x \in Range(s) \cup Range(t) : Occurrences(x, s) = Occurrences(x, t)

\* The place of the object x in the list s
Place(x, s) == CHOOSE p \in DOMAIN s : s[p] = x

UrlBag(ms) ==
    [u \in {ms[i].url : i \in DOMAIN ms} |->
        Cardinality({i \in DOMAIN ms : ms[i].url = u})]

InRateOrder(a, b, r) ==
    \/ r[a.url] > 0 /\ r[b.url] > 0 /\ r[a.url] > r[b.url]
    \/ r[a.url] > 0 /\ r[b.url] > 0 /\ r[a.url] = r[b.url] /\ a.id < b.id
    \/ r[a.url] > 0 /\ r[b.url] = 0
    \/ r[a.url] = 0 /\ r[b.url] = 0 /\ a.id < b.id

\* Every url was measured with one rate only (always so when the urls of the
\* input are distinct).
MeasuredPerUrl ==
    \A p \in measured, q \in measured : p[1] = q[1] => p[2] = q[2]

\* C2: the returned list is the records of rate > 0 by descending rate,
\* equal rates in input order, then the records of rate 0 in input order;
\* the rate that ranks a record is a rate measured for its url, and the one
\* rate measured for it when there is only one, whatever the order in which
\* the workers posted.
C2_RateOrder ==
    dpc = "returned" /\ mirrors # <<>> =>
        /\ Range(result) = Range(mirrors)
        /\ \A i \in DOMAIN result, j \in DOMAIN result :
              i < j => InRateOrder(result[i], result[j], rates)
        /\ \A i \in DOMAIN mirrors :
              <<mirrors[i].url, rates[mirrors[i].url]>> \in measured
        /\ MeasuredPerUrl => \A p \in measured : rates[p[1]] = p[2]

\* The scenario A = 500, B = 0, C = 1000 gives [C, A, B]; and one with a tie.
C2_Witness ==
    /\ dpc = "returned"
    /\ Len(mirrors) = 3
    /\ Cardinality({mirrors[i].url : i \in DOMAIN mirrors}) = 3
    /\ rates[mirrors[1].url] > 0
    /\ rates[mirrors[2].url] = 0
    /\ rates[mirrors[3].url] > rates[mirrors[1].url]
    /\ result = <<mirrors[3], mirrors[1], mirrors[2]>>

\* A thread that holds a url it has taken from q_in and not yet marked done
Processing(w) == w.pc \in {"put", "done"}

\* C3: when the partition and sort start, len(records) results have been
\* taken from q_out, one for each url dispatched, q_in is empty, every item
\* is marked done and no worker is in the middle of a url.
C3_JoinBeforeSort ==
    dpc = "sort" =>
        /\ drained = Len(mirrors)
        /\ taken = UrlBag(mirrors)
        /\ q_in = <<>>
        /\ q_out = <<>>
        /\ unfinished = 0
        /\ \A w \in Threads : ~Processing(w)

C3_Witness ==
    /\ dpc = "sort"
    /\ launched > 1
    /\ \E u \in DOMAIN taken : taken[u] > 1

\* C4: a probe that fails with a transport, timeout or I/O error posts
\* (url, 0, NaN): it never kills the worker.
ProbeFailed(w) == w.exc.at \in {"check_call", "urlopen", "read"}

C4_ProbeFailureRecovered ==
    \A w \in Threads :
        ProbeFailed(w) =>
            /\ w.pc # "dead"
            /\ w.res.rate = 0
            /\ w.res.dt = NaN

\* No step of the pass can be taken, and rate() has neither returned nor
\* raised.
Hung == dpc \notin {"returned", "raised"} /\ ~ENABLED Next

\* The thread count a pass was asked for: the threads argument, or, for 0,
\* the configured count.
AskedThreads == ThreadsOrConfigured(threadsArg, selfThreads)

\* C5: with thread count N and M records, at most M workers are launched
\* when M < N, rate() never deadlocks, and it returns exactly the M records.
C5_NoDeadlockExactResults ==
    /\ AskedThreads # None /\ Len(mirrors) < AskedThreads[1] =>
          launched <= Len(mirrors)
    /\ ~Hung
    /\ dpc = "returned" =>
          Len(result) = Len(mirrors) /\ IsPermutation(result, mirrors)

\* The thread count the ServerStatus was configured with (--threads); a
\* caller of rate() that names a count configures the pass with it.
ConfiguredThreads ==
    IF via = "direct" THEN AskedThreads ELSE selfThreads

\* C6: every pass on a non-empty list launches
\* max(1, min(configured_threads, len(records))) workers.
C6_WorkersLaunched ==
    /\ mirrors # <<>>
    /\ dpc \in {"load", "join", "drain", "sort", "returned"}
    /\ ConfiguredThreads # None
    =>
        launched = Max(1, Min(ConfiguredThreads[1], Len(mirrors)))

\* The reachability probe (MultiPing construction or send) of the url the
\* thread holds has failed.
PingFailed(w) == w.exc.at = "ping"

\* C18: a failed reachability probe does not stop the worker: it goes on to
\* the timed download and posts its one result for the url, so that the
\* join on the work queue is not left waiting for it.
C18_PingFailureTolerated ==
    \A w \in Threads :
        PingFailed(w) =>
            /\ w.pc # "dead"
            /\ w.pc \in {"put", "done"}

\* The download of the url the thread holds completed, in no time at all /
\* in a positive time.
TimedZero(w) == w.exc = ZeroDiv

TimedPositive(w) == w.pc \in {"put", "done"} /\ w.exc = NoExc

\* C19: a completed download posts bytes_read / elapsed when elapsed > 0
\* and 0 when elapsed is 0; a zero elapsed time never makes the worker fail
\* or skip its result.
C19_ZeroElapsedRate ==
    \A w \in Threads :
        /\ TimedPositive(w) =>
              /\ w.res.dt.secs > 0
              /\ w.res.rate = Divide(w.read, w.res.dt.secs)
        /\ TimedZero(w) =>
              /\ w.pc \in {"put", "done"}
              /\ w.res.rate = 0

\* A thread that has not ended: it is inside its loop body, or blocked in
\* q_in.get() at the top of `while True`.
Alive(w) == w.pc # "dead"

\* C22: once rate() has returned, every worker the pass launched has
\* stopped: none is alive, none is blocked on the work queue.
C22_WorkersStopAfterPass ==
    dpc = "returned" => \A w \in Threads : ~Alive(w)

\* A step of a worker thread: one thread changes its position and no thread
\* is launched.
WorkerStep == workers' # workers /\ launched' = launched

\* C23: the dict rates is written only by the thread that called rate(), in
\* its collecting loop, when q_in.join() has returned (every item put is
\* marked done and no worker holds a url); a step of a worker changes
\* neither the dict nor the records nor the list returned.
C23_RatesSingleWriter ==
    [][/\ rates' # rates =>
             /\ dpc = "drain"
             /\ unfinished = 0
             /\ \A w \in Threads : ~Processing(w)
             /\ ~WorkerStep
       /\ WorkerStep =>
             /\ rates' = rates
             /\ mirrors' = mirrors
             /\ result' = result]_vars

\* Two workers have posted and the caller has stored both rates.
C23_Witness ==
    /\ dpc \in {"drain", "sort", "returned"}
    /\ launched > 1
    /\ Cardinality(DOMAIN rates) > 1

\* Two records of the input have the same url.
SameUrl(i, j) == i # j /\ mirrors[i].url = mirrors[j].url

\* The records of the returned list that stand in the rate > 0 group: the
\* group is as long as the number of input records whose url has a rate > 0.
InRatedGroup(x) ==
    Place(x, result) <=
        Cardinality({k \in DOMAIN mirrors : rates[mirrors[k].url] > 0})

----------------------------------------------------------------------------
(* Properties of the loads of the registry *)

\* A retrieve() call has returned and nothing has been called since.
Retrieved == hist.done

\* C7: with caching on and a fresh cache file, retrieve() yields the
\* snapshot stored in the file, fetches nothing from upstream and leaves the
\* file as it is, whatever parsable content the file holds.
C7_FreshCacheServed ==
    Retrieved /\ hist.cache = "fresh" /\ Parsable(hist.seen) =>
        /\ json_obj = JSONLoad(hist.seen)
        /\ hist.fetched = 0
        /\ ~hist.wrote

\* C8: with caching on and the cache file absent or stale, retrieve()
\* fetches a fresh snapshot and then overwrites the cache file with that
\* snapshot, so that the file is not older than the snapshot in memory.
C8_StaleCacheRefreshed ==
    Retrieved /\ hist.cache \in {"absent", "stale"} =>
        /\ hist.fetched > 0
        /\ hist.wrote
        /\ file.exists
        /\ file.content = JSONEncode(json_obj)
        /\ file.mtime >= json_mtime

\* C9: after a cache miss that writes the cache, the snapshot in the file
\* equals the snapshot in memory field for field, last_check included, and
\* the next retrieve() served from that file yields the same snapshot.
C9_CacheRoundTrip ==
    /\ Retrieved /\ hist.wrote =>
          /\ Parsable(file.content)
          /\ JSONLoad(file.content).last_check = json_obj.last_check
          /\ JSONLoad(file.content).total = json_obj.total
          /\ JSONLoad(file.content).servers = json_obj.servers
    /\ Retrieved /\ hist.cache = "fresh" /\ hist.fetched = 0
       /\ lastMiss # NoneObj =>
          json_obj = lastMiss

\* The cache file was fresh and what was read from it is no JSON.
CorruptCacheRead == hist.cache = "fresh" /\ hist.seen.kind = "garbage"

\* C10: a fresh cache file that cannot be parsed ends retrieve() in
\* ServerStatusError, without an upstream fetch, and main() ends with its
\* one-line message, not with an uncaught exception.
C10_CorruptCacheReported ==
    CorruptCacheRead =>
        /\ ~Retrieved
        /\ hist.fetched = 0
        /\ rpc = "raised" => raised = "ServerStatusError"
        /\ outcome # "traceback"

\* The upstream fetch of this retrieve() succeeded and the write of the
\* cache file failed.
CacheWriteFailed == hist.fetched = 2 /\ hist.failed

\* C11: when the fetch succeeds and the write of the cache file fails, the
\* load does not raise: the caller gets the fetched snapshot and the run
\* does not end because of the write failure.
C11_CacheWriteFailureTolerated ==
    CacheWriteFailed =>
        /\ rpc # "raised"
        /\ outcome = "running"

\* C12: a get_obj() call made less than refresh_interval after the load of
\* the snapshot in memory (counted from the start of that load, which is
\* the earliest time it can be given) never calls retrieve(), whether that snapshot came
\* from upstream or from a cache file with an older mtime.
C12_RefreshIntervalFromLoad == ~hist.early

\* C17: every snapshot a fetch creates has total = len(servers).
C17_TotalIsLength ==
    /\ json_obj.tag = "snapshot" => json_obj.total = Len(json_obj.servers)
    /\ Parsable(json_str) /\ JSONLoad(json_str).tag = "snapshot" =>
          JSONLoad(json_str).total = Len(JSONLoad(json_str).servers)

\* C25: with cache_timeout <= 0 no retrieve() looks at the cache file (its
\* mtime is not read, its content is not read) or writes it, no step changes
\* the file, and every retrieve() that returns holds the snapshot it took
\* from upstream.
C25_CacheOffUntouched ==
    /\ [](cache_timeout <= 0 =>
            /\ rpc \notin {"stat", "load"}
            /\ hist.cache \in {"none", "off"}
            /\ hist.seen = NoStr
            /\ ~save_json
            /\ ~hist.wrote
            /\ ~hist.failed
            /\ Retrieved =>
                  /\ hist.fetched = 2
                  /\ json_obj = GetServerData(hist.page, json_mtime))
    /\ [][cache_timeout <= 0 => file' = file]_vars

\* Two loads with caching off, beside a cache file that holds another
\* snapshot than the one fetched
C25_Witness ==
    /\ cache_timeout <= 0
    /\ file.exists
    /\ Parsable(file.content)
    /\ Retrieved
    /\ loads = 2
    /\ hist.fetched = 2
    /\ json_obj # JSONLoad(file.content)

----------------------------------------------------------------------------
(* Properties of the calls on a store *)

\* The three criteria on a record, each as the contract words it
CountryOk(m, cr) ==
    cr.countries = NotGiven \/
        \E i \in DOMAIN cr.countries :
            \/ Upper(cr.countries[i]) = Upper(m.country)
            \/ Upper(cr.countries[i]) = Upper(m.country_code)

IncludeOk(m, cr) ==
    cr.include = NotGiven \/
        \E i \in DOMAIN cr.include : Search(cr.include[i], m.url)

ExcludeOk(m, cr) ==
    cr.exclude = NotGiven \/
        \A i \in DOMAIN cr.exclude : ~Search(cr.exclude[i], m.url)

\* The two criteria on keys that get_server_data() does not set
ProtocolOk(m, cr) ==
    cr.protocols = NotGiven \/
        \E i \in DOMAIN cr.protocols : cr.protocols[i] = m.protocol

AgeOk(m, cr) ==
    cr.age = 0 \/ FilterTime - m.last_sync <= cr.age * Hour

C14_SnapshotNotMutated ==
    api.op # "none" => store = api.held

\* C15: sort by 'age' returns the records in non-increasing last_sync
\* order, sort by 'country', 'country_code', 'delay' or 'score' in ascending
\* order of the field; equal keys keep their input order and the output is
\* a permutation of the input.
C15_SortOrderStable ==
    api.op = "sort" /\ api.by \in SortedInPlace =>
        /\ api.exc = "none"
        /\ IsPermutation(api.ret, api.arg)
        /\ \A i \in DOMAIN api.ret, j \in DOMAIN api.ret :
              i < j =>
                LET a == api.ret[i]
                    b == api.ret[j]
                    k == SortKey(api.by)
                IN  IF api.by = "age"
                    THEN \/ KeyLess(b, a, k)
                         \/ a[k] = b[k] /\ Place(a, api.arg) < Place(b, api.arg)
                    ELSE \/ KeyLess(a, b, k)
                         \/ a[k] = b[k] /\ Place(a, api.arg) < Place(b, api.arg)

\* The record has no last_sync field.
NoLastSync(m) == "last_sync" \notin m.keys

\* C21: when the age criterion is supplied (and no protocol criterion), a
\* record without last_sync does not make filter() fail and is not excluded
\* by the age: it is yielded if it satisfies country, include and exclude.
C21_MissingLastSyncKept ==
    api.op = "filter" /\ api.cr.age # 0 /\ api.cr.protocols = NotGiven =>
        /\ api.exc = "none"
        /\ \A i \in DOMAIN api.arg :
              /\ NoLastSync(api.arg[i])
              /\ CountryOk(api.arg[i], api.cr)
              /\ IncludeOk(api.arg[i], api.cr)
              /\ ExcludeOk(api.arg[i], api.cr)
              => api.arg[i] \in Range(api.ret)

----------------------------------------------------------------------------
(* Properties of one run of process_options *)

\* C16: in one run rate() is called at most once, and the list it is given
\* holds only records that passed filter().
C16_RateAtMostOnce ==
    /\ nrate <= 1
    /\ nrate > 0 => Range(rateIn) \subseteq Range(filtered)

\* --country se --fastest 1 --sort rate on two records of
\* get_server_data(): one rating pass, on the one record that passed
C16_Witness ==
    /\ ppc = "returned"
    /\ nrate = 1
    /\ options.sort = "rate"
    /\ options.fastest > 0
    /\ Len(store) = 2
    /\ \A i \in DOMAIN store : store[i].keys = BaseKeys
    /\ Len(filtered) = 1
    /\ rateIn = filtered

\* A rate-based sort or a rate-based limit was asked for.
RateRequested == options.sort = "rate" \/ options.fastest > 0

\* C20: when the rate ordering or a fastest limit is asked for and a record
\* passed the filter, a run that reaches its end has run the rating engine,
\* whatever the other options are.
C20_RatingRunsWhenRequested ==
    ppc = "returned" /\ RateRequested /\ filtered # <<>> => nrate > 0

====
